---- MODULE Spec2Model ----
(***************************************************************************)
(* Model of firmware/main/app_main.cpp of the ESP32-C3 Matter node:        *)
(*   - the UART frame codec (crc8, uart_send_frame, uart_rx_task) and the  *)
(*     command handlers it dispatches to;                                  *)
(*   - the mode arbiter (mode_sync_task), the attribute callback           *)
(*     (app_attribute_update_cb) and the peer's SET_MODE, interleaved at   *)
(*     the granularity of their accesses to the shared globals.            *)
(* Two specifications: SpecCodec feeds byte streams to the receive loop,   *)
(* SpecArb runs the arbiter against taps, peer commands and the clock.     *)
(***************************************************************************)
EXTENDS Integers, Sequences, FiniteSets, TLC

\* ------------------------------------------------------------------------
\* Program constants (app_main.cpp #defines and literals)
\* ------------------------------------------------------------------------
FRAME_START == 165            \* 0xA5
CRC_POLY == 49                \* 0x31
CMD_HELLO == 1
CMD_SET_MODE == 2
CMD_TRIGGER == 3
CMD_PING == 4
CMD_STATUS_PAIRED == 16       \* 0x10
CMD_STATUS_UNPAIRED == 17     \* 0x11
RSP_ACK == 128                \* 0x80
RSP_ERR == 129                \* 0x81
RSP_BUSY == 130               \* 0x82
RSP_DONE == 131               \* 0x83
MAX_FRAME_LEN == 60           \* uart_rx_task: frame_len > 60 is rejected
RESPONSE_BASE == 128          \* uart_rx_task: cmd >= 0x80 is a response
MAX_MODE == 3                 \* handle_cmd_set_mode: mode > 3 is rejected
NUM_MODES == 4                \* g_mode_plugin_ids[4], the sequencing loops
NO_TARGET == -1               \* g_target_mode: -1 = none pending
DEBOUNCE_MS == 200            \* mode_sync_task: time_since_tap_ms >= 200
CLEANUP_MS == 5000            \* mode_sync_task: >= 5000 on both timers
FRAME_BUF_SIZE == 64          \* uart_send_frame: uint8_t frame[64]
TICK_MS == 10                 \* mode_sync_task: vTaskDelay(pdMS_TO_TICKS(10))
US_PER_MS == 1000             \* mode_sync_task: (now - t) / 1000
PULSE_DURATION_MS == 500

\* ------------------------------------------------------------------------
\* Bounds of the model
\* ------------------------------------------------------------------------
MaxPayloadLen == 2            \* longest enumerated payload
MaxPrefixLen == 3             \* longest garbage / truncated prefix
MaxCallbacks == 2             \* attribute callbacks per behaviour
MaxPeerSets == 1              \* peer SET_MODE commands per behaviour
MaxSuspendMs == 1             \* longest preemption inside the callback, ms
MaxEncodeLen == 61            \* longest payload handed to uart_send_frame
MaxCleanups == 2              \* re-assertions counted since the last tap
MaxTimeouts == 1              \* reads that time out, per behaviour
MaxBodyFill == 62             \* bytes that follow a length byte under test
MaxObservations == 3          \* observations of the trigger switch

Modes == 0..(NUM_MODES - 1)
Byte == 0..255

\* ------------------------------------------------------------------------
\* 8-bit arithmetic
\* ------------------------------------------------------------------------
Pow2(k) == CASE k = 0 -> 1 [] k = 1 -> 2 [] k = 2 -> 4 [] k = 3 -> 8
             [] k = 4 -> 16 [] k = 5 -> 32 [] k = 6 -> 64 [] k = 7 -> 128

\* bit k of a ^ b, in place
xor_bit(a, b, k) == ((((a \div Pow2(k)) % 2) + ((b \div Pow2(k)) % 2)) % 2) * Pow2(k)

\* a ^ b on uint8_t
Xor8(a, b) ==
    xor_bit(a, b, 0) + xor_bit(a, b, 1) + xor_bit(a, b, 2) + xor_bit(a, b, 3)
    + xor_bit(a, b, 4) + xor_bit(a, b, 5) + xor_bit(a, b, 6) + xor_bit(a, b, 7)

\* (uint8_t)(v << 1)
Shl8(v) == (v * 2) % 256

\* ------------------------------------------------------------------------
\* crc8 (app_main.cpp 163-176)
\* ------------------------------------------------------------------------
\* one iteration of the inner loop: if (crc & 0x80) ... else ...
crc8_shift(crc) ==
    IF crc >= 128 THEN Xor8(Shl8(crc), CRC_POLY) ELSE Shl8(crc)

\* crc ^= data[i], then the inner loop, j = 0..7
crc8_byte(crc, b) ==
    crc8_shift(crc8_shift(crc8_shift(crc8_shift(
    crc8_shift(crc8_shift(crc8_shift(crc8_shift(Xor8(crc, b)))))))))

\* the outer loop, from index n on
RECURSIVE crc8_from(_, _, _)
crc8_from(data, n, crc) ==
    IF n > Len(data) THEN crc
    ELSE LET next == crc8_byte(crc, data[n]) IN     \* uint8_t crc
         IF next \in Byte THEN crc8_from(data, n + 1, next) ELSE next

crc8(data) == crc8_from(data, 1, 0)

\* ------------------------------------------------------------------------
\* uart_send_frame (app_main.cpp 179-209): the bytes handed to
\* uart_write_bytes for (cmd, payload)
\* ------------------------------------------------------------------------
\* uint8_t len = 1 + payload_len
frame_len_field(payload_len) == (1 + payload_len) % 256

uart_send_frame(c, payload) ==
    LET len  == frame_len_field(Len(payload))
        body == <<len, c>> \o payload      \* frame[1 .. idx-1]
    IN  <<FRAME_START>> \o body \o <<crc8(body)>>

\* uart_send_response is a wrapper
uart_send_response(c) == uart_send_frame(c, <<>>)


\* ------------------------------------------------------------------------
\* State
\* ------------------------------------------------------------------------
VARIABLES
    \* globals (app_main.cpp 65-71, 123)
    g_current_mode,          \* uint8_t, 0..3
    g_pulse_active,          \* bool
    g_target_mode,           \* volatile int, -1 = none pending
    g_last_tap_time,         \* volatile int64_t, microseconds
    g_last_execution_time,   \* volatile int64_t, microseconds
    g_syncing_modes,         \* volatile bool
    pulse_timers,            \* deadlines of the one-shot "pulse_timer"s not yet fired
    \* uart_rx_task locals (373-380) and the bytes still to be read
    rx_input,                \* bytes the UART driver will deliver, in order
    rx_data,                 \* data[i .. len-1] of the current read (385-388)
    state,                   \* 0=wait start, 1=len, 2=cmd+payload, 3=crc
    buf_idx,
    frame_buf,               \* frame_buf[0 .. buf_idx-1], as a sequence
    frame_len,
    bytes_to_read,
    cmd,
    \* what was written to the UART, frame by frame
    uart_tx,
    \* mode_sync_task: position, locals (277-279, 301, 327)
    sync_pc,
    now,
    time_since_tap_ms,
    time_since_exec_ms,
    i,
    cleanup_done,            \* static bool
    \* app_attribute_update_cb: position between lines 640 and 641
    cb_pc,
    \* esp_timer_get_time(), microseconds
    clock,
    \* observation: what the receive loop did with each frame
    rx_log,
    \* observation: the input the behaviour was started with
    scenario,
    \* observation: what a call of uart_send_frame under test did
    enc,
    \* observation: reports of the running sequence and the last report of
    \* each mode endpoint; taps, executions, re-assertions
    seq,
    obs

codec_vars == <<rx_input, rx_data, state, buf_idx, frame_buf, frame_len, bytes_to_read,
                cmd, rx_log, scenario, enc>>
arb_vars == <<g_target_mode, g_last_tap_time, g_last_execution_time,
              g_syncing_modes, sync_pc, now, time_since_tap_ms,
              time_since_exec_ms, i, cleanup_done, cb_pc, clock, seq, obs>>
vars == <<g_current_mode, g_pulse_active, pulse_timers, uart_tx, codec_vars,
          arb_vars>>

\* ------------------------------------------------------------------------
\* Command handlers (app_main.cpp 217-267).  A handler's result is the
\* ordered list of what it does and the values it leaves in g_current_mode
\* and g_pulse_active.
\* ------------------------------------------------------------------------
Tx(c) == [t |-> "tx", v |-> c]          \* uart_send_response(c)
Led(n) == [t |-> "led", v |-> n]        \* led_blink(n, ...): blocks
SetMode(m) == [t |-> "mode", v |-> m]   \* g_current_mode = m

handle_cmd_hello(payload, len) ==
    [ev |-> <<Tx(RSP_ACK), Led(3)>>, mode |-> g_current_mode,
     pulse |-> g_pulse_active]

\* variant: the LED pattern first, then the response
handle_cmd_ping_led_first(payload, len) ==
    [ev |-> <<Led(2), Tx(RSP_ACK)>>, mode |-> g_current_mode,
     pulse |-> g_pulse_active]

handle_cmd_ping(payload, len) ==
    [ev |-> <<Tx(RSP_ACK), Led(2)>>, mode |-> g_current_mode,
     pulse |-> g_pulse_active]

\* variant: the busy check left out
handle_cmd_trigger_unchecked(payload, len) ==
    [ev |-> <<Tx(RSP_ACK), Led(1)>>, mode |-> g_current_mode,
     pulse |-> g_pulse_active]

handle_cmd_trigger(payload, len) ==
    IF g_pulse_active
    THEN [ev |-> <<Tx(RSP_BUSY)>>, mode |-> g_current_mode,
     pulse |-> g_pulse_active]
    ELSE [ev |-> <<Tx(RSP_ACK), Led(1)>>, mode |-> g_current_mode,
     pulse |-> g_pulse_active]

\* if (len < 1)
set_mode_len_invalid(len) == len < 1

\* variant: the range check left out
set_mode_value_unchecked(mode) == FALSE

\* if (mode > 3)
set_mode_value_invalid(mode) == mode > MAX_MODE

handle_cmd_set_mode(payload, len) ==
    IF set_mode_len_invalid(len)
    THEN [ev |-> <<Tx(RSP_ERR), Led(5)>>, mode |-> g_current_mode,
     pulse |-> g_pulse_active]
    ELSE LET mode == payload[1] IN
         IF set_mode_value_invalid(mode)
         THEN [ev |-> <<Tx(RSP_ERR), Led(5)>>, mode |-> g_current_mode,
     pulse |-> g_pulse_active]
         ELSE [ev |-> <<SetMode(mode), Tx(RSP_ACK), Led(mode + 1)>>,
               mode |-> mode, pulse |-> g_pulse_active]

\* variant: no default branch, an unknown command is dropped
dispatch_no_default(c, payload, len) ==
    CASE c = CMD_HELLO    -> handle_cmd_hello(payload, len)
      [] c = CMD_PING     -> handle_cmd_ping(payload, len)
      [] c = CMD_TRIGGER  -> handle_cmd_trigger(payload, len)
      [] c = CMD_SET_MODE -> handle_cmd_set_mode(payload, len)
      [] OTHER            -> [ev |-> <<>>, mode |-> g_current_mode,
                              pulse |-> g_pulse_active]

\* switch (cmd) in uart_rx_task (438-456)
dispatch(c, payload, len) ==
    CASE c = CMD_HELLO    -> handle_cmd_hello(payload, len)
      [] c = CMD_PING     -> handle_cmd_ping(payload, len)
      [] c = CMD_TRIGGER  -> handle_cmd_trigger(payload, len)
      [] c = CMD_SET_MODE -> handle_cmd_set_mode(payload, len)
      [] OTHER            -> [ev |-> <<Tx(RSP_ERR), Led(5)>>,
                              mode |-> g_current_mode,
     pulse |-> g_pulse_active]

\* the frames a handler's Tx events put on the wire, in order
RECURSIVE tx_frames(_)
tx_frames(ev) ==
    IF ev = <<>> THEN <<>>
    ELSE (IF Head(ev).t = "tx" THEN <<uart_send_response(Head(ev).v)>>
          ELSE <<>>) \o tx_frames(Tail(ev))

\* ------------------------------------------------------------------------
\* uart_rx_task (app_main.cpp 373-472): one iteration of the for loop
\* ------------------------------------------------------------------------
\* variant: the length compared with the capacity of frame_buf
length_invalid_above_buffer(len) == len = 0 \/ len > FRAME_BUF_SIZE

\* if (frame_len == 0 || frame_len > 60)
length_invalid(len) == len = 0 \/ len > MAX_FRAME_LEN

\* variant: buf_idx - 1 bytes, so that the CRC byte itself is summed
crc_input_with_crc(buf, idx) == SubSeq(buf, 2, idx)

\* crc8(&frame_buf[1], buf_idx - 2), buf_idx already incremented
crc_input(buf, idx) == SubSeq(buf, 2, idx - 1)

\* variant: the CRC byte not compared
crc_always_matches(calc_crc, received_crc) == TRUE

\* variant: the top bit masked off before the comparison
crc_matches_low7(calc_crc, received_crc) ==
    (calc_crc % 128) = (received_crc % 128)

\* if (calc_crc == received_crc)
crc_matches(calc_crc, received_crc) == calc_crc = received_crc

\* variant: only the four response codes of the protocol are responses
is_known_response(c) == c \in {RSP_ACK, RSP_ERR, RSP_BUSY, RSP_DONE}

\* if (cmd >= 0x80)
is_response(c) == c >= RESPONSE_BASE

LogEntry(kind, c, payload, ev, mode_after, pulse_after) ==
    [kind |-> kind, cmd |-> c, payload |-> payload, ev |-> ev,
     mode_before |-> g_current_mode, mode_after |-> mode_after,
     pulse_before |-> g_pulse_active, pulse_after |-> pulse_after]

\* case 0: wait for start byte
rx_wait_start(b) ==
    /\ state = 0
    /\ IF b = FRAME_START
       THEN /\ frame_buf' = Append(frame_buf, b)
            /\ buf_idx' = buf_idx + 1
            /\ state' = 1
       ELSE UNCHANGED <<frame_buf, buf_idx, state>>
    /\ UNCHANGED <<frame_len, bytes_to_read, cmd, rx_log, uart_tx,
                   g_current_mode, g_pulse_active>>

\* case 1: length byte
rx_length(b) ==
    /\ state = 1
    /\ frame_len' = b
    /\ IF length_invalid(b)
       THEN /\ state' = 0
            /\ buf_idx' = 0
            /\ frame_buf' = <<>>
            /\ rx_log' = Append(rx_log, LogEntry("bad_len", 0, <<>>, <<>>,
                                        g_current_mode, g_pulse_active))
            /\ UNCHANGED bytes_to_read
       ELSE /\ frame_buf' = Append(frame_buf, b)
            /\ buf_idx' = buf_idx + 1
            /\ bytes_to_read' = b
            /\ state' = 2
            /\ UNCHANGED rx_log
    /\ UNCHANGED <<cmd, uart_tx, g_current_mode, g_pulse_active>>

\* case 2: cmd + payload
rx_body(b) ==
    /\ state = 2
    /\ frame_buf' = Append(frame_buf, b)
    /\ buf_idx' = buf_idx + 1
    /\ cmd' = IF buf_idx + 1 = 3 THEN b ELSE cmd
    /\ bytes_to_read' = bytes_to_read - 1
    /\ state' = IF bytes_to_read - 1 = 0 THEN 3 ELSE 2
    /\ UNCHANGED <<frame_len, rx_log, uart_tx, g_current_mode,
                   g_pulse_active>>

\* case 3: CRC, dispatch, reset for next frame
rx_crc(b) ==
    /\ state = 3
    /\ LET buf == Append(frame_buf, b)
           idx == buf_idx + 1
           received_crc == b
           calc_crc == crc8(crc_input(buf, idx))
           payload_len == frame_len - 1
           payload == SubSeq(buf, 4, 3 + payload_len)
       IN  IF crc_matches(calc_crc, received_crc)
           THEN IF is_response(cmd)
                THEN /\ rx_log' = Append(rx_log,
                            LogEntry("response", cmd, payload, <<>>,
                                     g_current_mode, g_pulse_active))
                     /\ UNCHANGED <<uart_tx, g_current_mode, g_pulse_active>>
                ELSE LET r == dispatch(cmd, payload, payload_len) IN
                     /\ rx_log' = Append(rx_log,
                            LogEntry("command", cmd, payload, r.ev, r.mode,
                                     r.pulse))
                     /\ uart_tx' = uart_tx \o tx_frames(r.ev)
                     /\ g_current_mode' = r.mode
                     /\ g_pulse_active' = r.pulse
           ELSE /\ rx_log' = Append(rx_log,
                       LogEntry("crc_error", cmd, payload, <<Led(5)>>,
                                g_current_mode, g_pulse_active))
                /\ UNCHANGED <<uart_tx, g_current_mode, g_pulse_active>>
    /\ state' = 0
    /\ buf_idx' = 0
    /\ frame_buf' = <<>>
    /\ UNCHANGED <<frame_len, bytes_to_read, cmd>>

\* the UART delivers the next byte and the loop body runs on it
RxByte ==
    /\ rx_input # <<>>
    /\ rx_input' = Tail(rx_input)
    /\ LET b == Head(rx_input) IN
         \/ rx_wait_start(b)
         \/ rx_length(b)
         \/ rx_body(b)
         \/ rx_crc(b)
    /\ UNCHANGED <<rx_data, scenario, enc, pulse_timers, arb_vars>>


\* ------------------------------------------------------------------------
\* Initial state (globals' initialisers, the tasks' locals at entry)
\* ------------------------------------------------------------------------
\* no report sequence has run yet
NoSeq == [kind |-> "none", reports |-> <<>>, complete |-> FALSE,
          last |-> [m \in Modes |-> "none"]]

\* nothing observed yet
NoObs == [n_cb |-> 0, n_peer |-> 0,
          peer_mode |-> NO_TARGET,
          tap_at |-> -1, tap_mode |-> NO_TARGET, tap_on_current |-> FALSE,
          burst_open |-> FALSE, burst_ok |-> TRUE,
          unexecuted |-> NO_TARGET,
          exec |-> [at |-> -1, mode |-> NO_TARGET, tap_at |-> -1,
                    tap_mode |-> NO_TARGET, tap_on_current |-> FALSE,
                    burst_ok |-> TRUE, cleared |-> FALSE, sent |-> 0],
          cleanups |-> 0]

ArbInit ==
    /\ g_target_mode = NO_TARGET
    /\ g_last_tap_time = 0
    /\ g_last_execution_time = 0
    /\ g_syncing_modes = FALSE
    /\ sync_pc = "top"
    /\ now = 0
    /\ time_since_tap_ms = 0
    /\ time_since_exec_ms = 0
    /\ i = 0
    /\ cleanup_done = FALSE
    /\ cb_pc = "idle"
    /\ clock = 0
    /\ seq = NoSeq
    /\ obs = NoObs

\* uart_send_frame not called yet
NoEnc == [called |-> FALSE, stored |-> 0, outcome |-> "none", ret |-> FALSE]

\* no read has returned yet
NoData == [bytes |-> <<>>, timeouts |-> 0, split |-> FALSE]

DecoderInit ==
    /\ enc = NoEnc
    /\ rx_data = NoData
    /\ state = 0
    /\ buf_idx = 0
    /\ frame_buf = <<>>
    /\ frame_len = 0
    /\ bytes_to_read = 0
    /\ cmd = 0
    /\ rx_log = <<>>

\* ------------------------------------------------------------------------
\* Inputs of the receive loop
\* ------------------------------------------------------------------------
SeqsUpTo(S, n) == UNION {[1..k -> S] : k \in 0..n}

CmdSamples == {0, CMD_HELLO, CMD_SET_MODE, CMD_TRIGGER, CMD_PING,
               CMD_STATUS_PAIRED, CMD_STATUS_UNPAIRED, RESPONSE_BASE - 1,
               RSP_ACK, 255}

\* a valid mode, an invalid mode, and the CRC of an empty PING frame
PayloadBytes == {2, 5, crc8(<<1, CMD_PING>>)}

\* short payloads, and one payload that is itself an encoded frame
Payloads == SeqsUpTo(PayloadBytes, MaxPayloadLen)
              \cup {uart_send_frame(CMD_PING, <<>>)}

\* garbage, a plausible length byte, the start marker
PrefixBytes == {0, 2, FRAME_START}
Prefixes == SeqsUpTo(PrefixBytes, MaxPrefixLen)

\* complete frames that may precede the frame under test
FirstFrames == {uart_send_frame(CMD_TRIGGER, <<>>),
                uart_send_frame(CMD_SET_MODE, <<2>>)}

\* stream with bit k flipped (bit k % 8 of byte k \div 8, counted from 0)
FlipBit(stream, k) ==
    [j \in 1..Len(stream) |->
        IF j = (k \div 8) + 1 THEN Xor8(stream[j], Pow2(k % 8))
        ELSE stream[j]]

Scenario(kind, prefix, c, payload, flip) ==
    LET frame == uart_send_frame(c, payload) IN
    [kind |-> kind, prefix |-> prefix, cmd |-> c, payload |-> payload,
     flip |-> flip,
     stream |-> prefix \o (IF flip >= 0 THEN FlipBit(frame, flip) ELSE frame)]

\* clean: one encoded frame; prefix: garbage or a truncated frame, then a
\* frame; pair: two frames back to back; flip: one frame with one bit flipped
Scenarios ==
    {Scenario("clean", <<>>, c, pl, -1) : c \in CmdSamples, pl \in Payloads}
    \cup {Scenario("prefix", p, c, pl, -1) :
        p \in Prefixes \ {<<>>}, c \in CmdSamples,
        pl \in SeqsUpTo(PayloadBytes, 1)}
    \cup {Scenario("pair", f, c, pl, -1) :
        f \in FirstFrames, c \in CmdSamples, pl \in Payloads}
    \cup UNION {{Scenario("flip", <<>>, c, pl, k) :
                    k \in 0..(8 * (Len(pl) + 4) - 1)} :
                c \in CmdSamples, pl \in Payloads}

InitCodec ==
    /\ g_current_mode = 0
    /\ uart_tx = <<>>
    /\ ArbInit
    /\ DecoderInit
    /\ scenario \in Scenarios
    /\ rx_input = scenario.stream
    \* a pulse may be running (start_pulse) when a pair of frames arrives
    /\ g_pulse_active \in (IF scenario.kind = "pair" THEN BOOLEAN ELSE {FALSE})
    \* with its one-shot timer pending (start_pulse at time 0)
    /\ pulse_timers = IF g_pulse_active
                      THEN <<PULSE_DURATION_MS * US_PER_MS>> ELSE <<>>

NextCodec == RxByte

SpecCodec == InitCodec /\ [][NextCodec]_vars

\* ------------------------------------------------------------------------
\* The receive loop with the stream split into reads: uart_read_bytes
\* returns the next n bytes, or 0 bytes on its 100 ms timeout (line 385),
\* and the for loop runs the switch on each byte of the read (387-468)
\* ------------------------------------------------------------------------
\* variant: a read that timed out puts the decoder back to "wait start"
state_reset_on_timeout(n) == IF n = 0 THEN 0 ELSE state

\* state (like the other locals, 375-380) is declared outside while (1):
\* a read leaves it alone
state_after_read(n) == state

\* int len = uart_read_bytes(UART_NUM, data, UART_BUF_SIZE, 100 ms)
UartRead ==
    /\ rx_data.bytes = <<>>
    /\ \E n \in 0..Len(rx_input) :
         /\ n = 0 => rx_data.timeouts < MaxTimeouts
         /\ rx_data' = [bytes |-> SubSeq(rx_input, 1, n),
                        timeouts |-> rx_data.timeouts + (IF n = 0 THEN 1 ELSE 0),
                        split |-> rx_data.split \/ (state # 0 /\ n < Len(rx_input))]
         /\ rx_input' = SubSeq(rx_input, n + 1, Len(rx_input))
         /\ state' = state_after_read(n)
    /\ UNCHANGED <<buf_idx, frame_buf, frame_len, bytes_to_read, cmd, rx_log,
                   uart_tx, g_current_mode, g_pulse_active, scenario, enc,
                   pulse_timers, arb_vars>>

\* one iteration of for (int i = 0; i < len; i++)
RxIteration ==
    /\ rx_data.bytes # <<>>
    /\ rx_data' = [rx_data EXCEPT !.bytes = Tail(@)]
    /\ LET b == Head(rx_data.bytes) IN
         \/ rx_wait_start(b)
         \/ rx_length(b)
         \/ rx_body(b)
         \/ rx_crc(b)
    /\ UNCHANGED <<rx_input, scenario, enc, pulse_timers, arb_vars>>

\* the streams that are split into reads: one command with its payloads,
\* one without, one response
ReadCmds == {CMD_SET_MODE, CMD_PING, RSP_ACK}

InitReads == InitCodec /\ scenario.cmd \in ReadCmds

NextReads == UartRead \/ RxIteration

SpecReads == InitReads /\ [][NextReads]_vars

\* ------------------------------------------------------------------------
\* The receive loop on frames as long as its frame buffer allows, and on
\* length bytes around the limit
\* ------------------------------------------------------------------------
Fill(b, n) == [k \in 1..n |-> b]

FillBytes == {2, FRAME_START}

\* the length bytes under test
BufferLengths == {0, 1, MAX_FRAME_LEN - 1, MAX_FRAME_LEN, MAX_FRAME_LEN + 1,
                  FRAME_BUF_SIZE, 255}

BufferScenario(c, payload, stream) ==
    [kind |-> "buffer", prefix |-> <<>>, cmd |-> c, payload |-> payload,
     flip |-> -1, stream |-> stream]

\* a start marker, a length byte and filler; the two longest frames the
\* length check lets through, correctly encoded, and a short frame after
BufferScenarios ==
    {BufferScenario(0, <<>>, <<FRAME_START, len>> \o Fill(b, MaxBodyFill)) :
        len \in BufferLengths, b \in FillBytes}
    \cup {BufferScenario(CMD_PING, Fill(b, n),
              uart_send_frame(CMD_PING, Fill(b, n))
                  \o uart_send_frame(CMD_PING, <<>>)) :
          n \in {MAX_FRAME_LEN - 2, MAX_FRAME_LEN - 1}, b \in FillBytes}

InitBuffer ==
    /\ g_current_mode = 0
    /\ g_pulse_active = FALSE
    /\ pulse_timers = <<>>
    /\ uart_tx = <<>>
    /\ ArbInit
    /\ DecoderInit
    /\ scenario \in BufferScenarios
    /\ rx_input = scenario.stream

NextBuffer == RxByte

SpecBuffer == InitBuffer /\ [][NextBuffer]_vars

\* ------------------------------------------------------------------------
\* uart_send_frame called on its own, with payloads around the capacity of
\* its frame buffer
\* ------------------------------------------------------------------------
\* idx when the frame is handed to uart_write_bytes: bytes stored in frame[]
frame_bytes_stored(payload_len) == (payload_len + 4) % 256

\* every store of uart_send_frame stays inside frame[64]
fits_frame_buffer(payload_len) == payload_len + 4 <= FRAME_BUF_SIZE

\* memcpy and frame[idx++] past the end of frame[] are undefined: the build
\* may send the frame as computed, send what the buffer proper holds, or
\* abort the task before anything is written
OverflowOutcomes == {"written", "truncated", "aborted"}

EncodeLens == {0, 1} \cup ((MAX_FRAME_LEN - 3)..MaxEncodeLen)

EncodeFills == {2, FRAME_START}

EncodeInputs ==
    {[kind |-> "encode", prefix |-> <<>>, cmd |-> c,
      payload |-> [j \in 1..n |-> fill], flip |-> -1, stream |-> <<>>] :
        c \in CmdSamples, n \in EncodeLens, fill \in EncodeFills}

\* one call uart_send_frame(scenario.cmd, scenario.payload, Len(payload))
EncodeFrame ==
    /\ scenario.kind = "encode"
    /\ ~enc.called
    /\ LET n == Len(scenario.payload)
           frame == uart_send_frame(scenario.cmd, scenario.payload)
       IN  IF fits_frame_buffer(n)
           THEN /\ uart_tx' = Append(uart_tx, frame)
                /\ enc' = [called |-> TRUE, stored |-> frame_bytes_stored(n),
                           outcome |-> "written", ret |-> TRUE]
           ELSE \E outcome \in OverflowOutcomes :
                /\ uart_tx' =
                      CASE outcome = "written" -> Append(uart_tx, frame)
                        [] outcome = "truncated" ->
                             Append(uart_tx, SubSeq(frame, 1, FRAME_BUF_SIZE))
                        [] OTHER -> uart_tx
                /\ enc' = [called |-> TRUE, stored |-> frame_bytes_stored(n),
                           outcome |-> outcome, ret |-> outcome = "written"]
    /\ UNCHANGED <<g_current_mode, g_pulse_active, pulse_timers, rx_input,
                   rx_data, state, buf_idx, frame_buf, frame_len,
                   bytes_to_read, cmd, rx_log, scenario, arb_vars>>

InitEncoder ==
    /\ g_current_mode = 0
    /\ g_pulse_active = FALSE
    /\ pulse_timers = <<>>
    /\ uart_tx = <<>>
    /\ ArbInit
    /\ DecoderInit
    /\ scenario \in EncodeInputs
    /\ rx_input = <<>>

NextEncoder == EncodeFrame

SpecEncoder == InitEncoder /\ [][NextEncoder]_vars


\* ------------------------------------------------------------------------
\* Time: esp_timer_get_time() read at a few instants of a timeline
\* ------------------------------------------------------------------------
InstantsMs == {0, 50, 199, 200, 250, 5250, 5450}

LaterInstants == {t \in InstantsMs : t * US_PER_MS > clock}

next_instant ==
    US_PER_MS * (CHOOSE t \in LaterInstants : \A u \in LaterInstants : t <= u)

\* a timer has reached its deadline
timer_due == pulse_timers # <<>> /\ Head(pulse_timers) <= clock

\* time passes, to the next instant of the timeline, while mode_sync_task
\* is in its vTaskDelay (line 368); one iteration of its loop takes no time,
\* and a callback preempted between two of its statements resumes within
\* MaxSuspendMs
AdvanceClock ==
    /\ sync_pc = "top"
    /\ ~timer_due
    /\ LaterInstants # {}
    /\ cb_pc # "idle" => next_instant - clock <= MaxSuspendMs * US_PER_MS
    /\ clock' = next_instant
    /\ UNCHANGED <<g_current_mode, g_pulse_active, pulse_timers, uart_tx,
                   codec_vars, g_target_mode, g_last_tap_time,
                   g_last_execution_time, g_syncing_modes, sync_pc, now,
                   time_since_tap_ms, time_since_exec_ms, i, cleanup_done,
                   cb_pc, seq, obs>>

\* int64_t a / b, truncating toward zero
TruncDiv(a, b) == IF a >= 0 THEN a \div b ELSE -((-a) \div b)

\* ------------------------------------------------------------------------
\* start_pulse / stop_pulse / the pulse timer (app_main.cpp 553-597)
\* ------------------------------------------------------------------------
\* start_pulse(): [g_pulse_active, pulse_timers] afterwards; a new one-shot
\* timer is created and started for every pulse
start_pulse ==
    IF g_pulse_active
    THEN [active |-> TRUE, timers |-> pulse_timers]
    ELSE [active |-> TRUE,
          timers |-> Append(pulse_timers,
                            clock + PULSE_DURATION_MS * US_PER_MS)]

\* stop_pulse(): the timer is left running
stop_pulse == [active |-> FALSE, timers |-> pulse_timers]

\* The esp_timer task dispatching the timer callback has the highest
\* priority: an application task runs only when no timer is due.
task_runs == ~timer_due

\* the timer callback (566-582)
PulseTimerFire ==
    /\ timer_due
    /\ pulse_timers' = Tail(pulse_timers)
    /\ g_pulse_active' = FALSE
    /\ UNCHANGED <<g_current_mode, uart_tx, codec_vars, arb_vars>>

\* ------------------------------------------------------------------------
\* app_attribute_update_cb, PRE_UPDATE of an OnOff attribute
\* (app_main.cpp 602-651).  endpoint: the index of a mode plug, or the
\* switch endpoint, numbered after the mode plugs.
\* ------------------------------------------------------------------------
switch_endpoint == NUM_MODES

Endpoints == {switch_endpoint} \cup Modes

\* variant: the suppression flag not consulted
tap_never_ignored == FALSE

\* if (g_syncing_modes) { ...; break; }
tap_ignored == g_syncing_modes

\* lines 605-640: everything up to and including g_target_mode = mode
Callback(endpoint, val) ==
    /\ task_runs
    /\ cb_pc = "idle"
    /\ uart_tx' = IF endpoint = switch_endpoint /\ val
                  THEN Append(uart_tx, uart_send_frame(CMD_TRIGGER, <<>>))
                  ELSE uart_tx
    /\ LET p == IF val THEN start_pulse ELSE stop_pulse IN
         /\ g_pulse_active' = p.active
         /\ pulse_timers' = p.timers
    /\ IF endpoint \in Modes /\ val /\ ~tap_ignored
       THEN /\ g_target_mode' = endpoint
            /\ cb_pc' = "store_time"
            /\ obs' = [obs EXCEPT
                  !.n_cb = @ + 1,
                  !.tap_at = clock,
                  !.tap_mode = endpoint,
                  !.tap_on_current = (endpoint = g_current_mode),
                  !.peer_mode = NO_TARGET,
                  !.burst_open = TRUE,
                  !.burst_ok = IF obs.burst_open
                               THEN obs.burst_ok /\
                                    clock - obs.tap_at < DEBOUNCE_MS * US_PER_MS
                               ELSE TRUE,
                  !.unexecuted = endpoint,
                  !.cleanups = 0]
       ELSE /\ obs' = [obs EXCEPT !.n_cb = @ + 1]
            /\ UNCHANGED <<g_target_mode, cb_pc>>
    /\ UNCHANGED <<g_current_mode, codec_vars, g_last_tap_time,
                   g_last_execution_time, g_syncing_modes, sync_pc, now,
                   time_since_tap_ms, time_since_exec_ms, i, cleanup_done,
                   clock, seq>>

\* the callback entered for one of the observations of a behaviour
CbEnter(endpoint, val) ==
    /\ obs.n_cb < MaxCallbacks
    /\ Callback(endpoint, val)

\* line 641: g_last_tap_time = esp_timer_get_time()
CbStoreTime ==
    /\ task_runs
    /\ cb_pc = "store_time"
    /\ g_last_tap_time' = clock
    /\ cb_pc' = "idle"
    /\ UNCHANGED <<g_current_mode, g_pulse_active, pulse_timers, uart_tx,
                   codec_vars, g_target_mode, g_last_execution_time,
                   g_syncing_modes, sync_pc, now, time_since_tap_ms,
                   time_since_exec_ms, i, cleanup_done, clock, seq, obs>>

\* ------------------------------------------------------------------------
\* The receive loop dispatching a CRC-valid SET_MODE frame with payload
\* <<m>> while the arbiter runs (uart_rx_task 448-449, handle_cmd_set_mode)
\* ------------------------------------------------------------------------
\* observation: the last accepted tap selected the mode that was current
\* and was ingested more than 200 ms plus one tick period ago
quiet_redundant_tap ==
    /\ obs.tap_at >= 0
    /\ obs.tap_on_current
    /\ clock - obs.tap_at > (DEBOUNCE_MS + TICK_MS) * US_PER_MS

PeerSetMode(m) ==
    /\ task_runs
    /\ obs.n_peer < MaxPeerSets
    /\ LET r == dispatch(CMD_SET_MODE, <<m>>, 1) IN
         /\ g_current_mode' = r.mode
         /\ uart_tx' = uart_tx \o tx_frames(r.ev)
         /\ g_pulse_active' = r.pulse
    /\ obs' = [obs EXCEPT !.n_peer = @ + 1,
                          !.peer_mode = IF quiet_redundant_tap THEN m
                                        ELSE NO_TARGET]
    /\ UNCHANGED <<pulse_timers, codec_vars, g_target_mode, g_last_tap_time,
                   g_last_execution_time, g_syncing_modes, sync_pc, now,
                   time_since_tap_ms, time_since_exec_ms, i, cleanup_done,
                   cb_pc, clock, seq>>

\* ------------------------------------------------------------------------
\* mode_sync_task (app_main.cpp 272-370), one step per access to the
\* globals it shares with the callback and the receive loop
\* ------------------------------------------------------------------------
\* the task is at this place and is running
at(pc) == task_runs /\ sync_pc = pc

sync_frame == <<g_current_mode, g_pulse_active, pulse_timers, uart_tx,
                codec_vars, cb_pc, clock>>

\* lines 277-279
SyncTop ==
    /\ at("top")
    /\ now' = clock
    /\ time_since_tap_ms' = TruncDiv(clock - g_last_tap_time, US_PER_MS)
    /\ time_since_exec_ms' = TruncDiv(clock - g_last_execution_time, US_PER_MS)
    /\ sync_pc' = "check"
    /\ UNCHANGED <<sync_frame, g_target_mode, g_last_tap_time,
                   g_last_execution_time, g_syncing_modes, i, cleanup_done,
                   seq, obs>>

\* line 282
debounce_complete ==
    /\ g_target_mode >= 0
    /\ g_target_mode # g_current_mode
    /\ time_since_tap_ms >= DEBOUNCE_MS

SyncCheck ==
    /\ at("check")
    /\ sync_pc' = IF debounce_complete THEN "exec_set" ELSE "cl_check"
    /\ UNCHANGED <<sync_frame, g_target_mode, g_last_tap_time,
                   g_last_execution_time, g_syncing_modes, now,
                   time_since_tap_ms, time_since_exec_ms, i, cleanup_done,
                   seq, obs>>

\* line 287: g_current_mode = g_target_mode
SyncExecSet ==
    /\ at("exec_set")
    /\ g_current_mode' = g_target_mode % 256
    /\ sync_pc' = "exec_clear"
    /\ obs' = [obs EXCEPT
          !.exec = [at |-> clock, mode |-> g_target_mode,
                    tap_at |-> obs.tap_at, tap_mode |-> obs.tap_mode,
                    tap_on_current |-> obs.tap_on_current,
                    burst_ok |-> obs.burst_ok,
                    cleared |-> FALSE, sent |-> 0],
          !.burst_open = FALSE,
          !.unexecuted = IF g_target_mode = obs.unexecuted THEN NO_TARGET
                         ELSE obs.unexecuted]
    /\ UNCHANGED <<g_pulse_active, pulse_timers, uart_tx, codec_vars, cb_pc,
                   clock, g_target_mode, g_last_tap_time,
                   g_last_execution_time, g_syncing_modes, now,
                   time_since_tap_ms, time_since_exec_ms, i, cleanup_done,
                   seq>>

\* line 288: g_target_mode = -1
SyncExecClear ==
    /\ at("exec_clear")
    /\ g_target_mode' = NO_TARGET
    /\ sync_pc' = "exec_send"
    /\ obs' = [obs EXCEPT !.exec.cleared = TRUE]
    /\ UNCHANGED <<sync_frame, g_last_tap_time, g_last_execution_time,
                   g_syncing_modes, now, time_since_tap_ms,
                   time_since_exec_ms, i, cleanup_done, seq>>

\* variant: the payload taken from g_target_mode, already cleared
set_mode_payload_from_target == <<g_target_mode % 256>>

\* line 291: uint8_t payload[1] = { (uint8_t)g_current_mode }
set_mode_payload == <<g_current_mode>>

\* lines 291-292: uart_send_frame(CMD_SET_MODE, payload, 1)
SyncExecSend ==
    /\ at("exec_send")
    /\ uart_tx' = Append(uart_tx,
                         uart_send_frame(CMD_SET_MODE, set_mode_payload))
    /\ sync_pc' = "exec_sync"
    /\ obs' = [obs EXCEPT !.exec.sent = @ + 1]
    /\ UNCHANGED <<g_current_mode, g_pulse_active, pulse_timers, codec_vars,
                   cb_pc, clock, g_target_mode, g_last_tap_time,
                   g_last_execution_time, g_syncing_modes, now,
                   time_since_tap_ms, time_since_exec_ms, i, cleanup_done,
                   seq>>

\* what attribute::report may return: an error only in the behaviours
\* started with failing reports
ReportResults ==
    IF scenario.kind = "faults" THEN {"ESP_OK", "ESP_FAIL"} ELSE {"ESP_OK"}

\* variant: an error returned by a report ends the sequence
report_aborts_on_error(err) == err # "ESP_OK"

\* the result of a report is logged (305, 317) and not branched on
report_aborts(err) == FALSE

\* attribute::report(g_mode_plugin_ids[endpoint], OnOff, val) returning
\* err; a report that failed has not changed what the hub was last told
report(endpoint, val, err) ==
    [seq EXCEPT
        !.reports = Append(@, [ep |-> endpoint, val |-> val, err |-> err]),
        !.last[endpoint] = IF err # "ESP_OK" THEN @
                           ELSE IF val THEN "on" ELSE "off"]

\* lines 295 / 332: g_syncing_modes = true, and the loop's int i = 0
sync_begin(kind, next_pc) ==
    /\ g_syncing_modes' = TRUE
    /\ i' = 0
    /\ seq' = [kind |-> kind, reports |-> <<>>, complete |-> FALSE,
               last |-> seq.last]
    /\ sync_pc' = next_pc

\* if (i != g_current_mode): skip the target mode
is_other_mode(n) == n # g_current_mode

\* lines 301-308 / 338-345: one iteration of the OFF loop
off_iteration(loop_pc, next_pc, end_pc) ==
    \E err \in ReportResults :
        /\ seq' = IF is_other_mode(i) THEN report(i, FALSE, err) ELSE seq
        /\ i' = i + 1
        /\ sync_pc' = IF is_other_mode(i) /\ report_aborts(err) THEN end_pc
                      ELSE IF i + 1 < NUM_MODES THEN loop_pc ELSE next_pc

\* lines 315 / 351: report ON for g_mode_plugin_ids[g_current_mode]
on_report(next_pc) ==
    \E err \in ReportResults :
        /\ seq' = report(g_current_mode, TRUE, err)
        /\ sync_pc' = next_pc

\* line 295
SyncExecSync ==
    /\ at("exec_sync")
    /\ sync_begin("exec", "exec_off")
    /\ UNCHANGED <<sync_frame, g_target_mode, g_last_tap_time,
                   g_last_execution_time, now, time_since_tap_ms,
                   time_since_exec_ms, cleanup_done, obs>>

\* lines 301-308
SyncExecOff ==
    /\ at("exec_off")
    /\ off_iteration("exec_off", "exec_on", "exec_end")
    /\ UNCHANGED <<sync_frame, g_target_mode, g_last_tap_time,
                   g_last_execution_time, g_syncing_modes, now,
                   time_since_tap_ms, time_since_exec_ms, cleanup_done, obs>>

\* lines 311-317
SyncExecOn ==
    /\ at("exec_on")
    /\ on_report("exec_end")
    /\ UNCHANGED <<sync_frame, g_target_mode, g_last_tap_time,
                   g_last_execution_time, g_syncing_modes, now,
                   time_since_tap_ms, time_since_exec_ms, i, cleanup_done,
                   obs>>

\* lines 319-320: g_syncing_modes = false; g_last_execution_time = now
SyncExecEnd ==
    /\ at("exec_end")
    /\ g_syncing_modes' = FALSE
    /\ g_last_execution_time' = now
    /\ seq' = [seq EXCEPT !.complete = TRUE]
    /\ sync_pc' = "cl_check"
    /\ UNCHANGED <<sync_frame, g_target_mode, g_last_tap_time, now,
                   time_since_tap_ms, time_since_exec_ms, i, cleanup_done,
                   obs>>

\* line 328
cleanup_due ==
    /\ time_since_exec_ms >= CLEANUP_MS
    /\ time_since_tap_ms >= CLEANUP_MS
    /\ ~cleanup_done

SyncCleanupCheck ==
    /\ at("cl_check")
    /\ sync_pc' = IF cleanup_due THEN "cl_sync" ELSE "reset"
    /\ UNCHANGED <<sync_frame, g_target_mode, g_last_tap_time,
                   g_last_execution_time, g_syncing_modes, now,
                   time_since_tap_ms, time_since_exec_ms, i, cleanup_done,
                   seq, obs>>

\* line 332
SyncCleanupSync ==
    /\ at("cl_sync")
    /\ sync_begin("cleanup", "cl_off")
    /\ obs' = [obs EXCEPT
          !.cleanups = IF @ < MaxCleanups THEN @ + 1 ELSE @]
    /\ UNCHANGED <<sync_frame, g_target_mode, g_last_tap_time,
                   g_last_execution_time, now, time_since_tap_ms,
                   time_since_exec_ms, cleanup_done>>

\* lines 338-345
SyncCleanupOff ==
    /\ at("cl_off")
    /\ off_iteration("cl_off", "cl_on", "cl_end")
    /\ UNCHANGED <<sync_frame, g_target_mode, g_last_tap_time,
                   g_last_execution_time, g_syncing_modes, now,
                   time_since_tap_ms, time_since_exec_ms, cleanup_done, obs>>

\* lines 347-353
SyncCleanupOn ==
    /\ at("cl_on")
    /\ on_report("cl_end")
    /\ UNCHANGED <<sync_frame, g_target_mode, g_last_tap_time,
                   g_last_execution_time, g_syncing_modes, now,
                   time_since_tap_ms, time_since_exec_ms, i, cleanup_done,
                   obs>>

\* lines 355-356: g_syncing_modes = false; cleanup_done = true
SyncCleanupEnd ==
    /\ at("cl_end")
    /\ g_syncing_modes' = FALSE
    /\ cleanup_done' = TRUE
    /\ seq' = [seq EXCEPT !.complete = TRUE]
    /\ sync_pc' = "reset"
    /\ UNCHANGED <<sync_frame, g_target_mode, g_last_tap_time,
                   g_last_execution_time, now, time_since_tap_ms,
                   time_since_exec_ms, i, obs>>

\* if (g_target_mode >= 0 && cleanup_done)
cleanup_rearmed == g_target_mode >= 0 /\ cleanup_done

\* lines 362-368: re-arm the cleanup, then vTaskDelay
SyncReset ==
    /\ at("reset")
    /\ cleanup_done' = IF cleanup_rearmed THEN FALSE ELSE cleanup_done
    /\ sync_pc' = "top"
    /\ UNCHANGED <<sync_frame, g_target_mode, g_last_tap_time,
                   g_last_execution_time, g_syncing_modes, now,
                   time_since_tap_ms, time_since_exec_ms, i, seq, obs>>

SyncStep ==
    \/ SyncTop
    \/ SyncCheck
    \/ SyncExecSet
    \/ SyncExecClear
    \/ SyncExecSend
    \/ SyncExecSync
    \/ SyncExecOff
    \/ SyncExecOn
    \/ SyncExecEnd
    \/ SyncCleanupCheck
    \/ SyncCleanupSync
    \/ SyncCleanupOff
    \/ SyncCleanupOn
    \/ SyncCleanupEnd
    \/ SyncReset

\* ------------------------------------------------------------------------
\* The arbiter with its environment
\* ------------------------------------------------------------------------
NoScenario == [kind |-> "none", prefix |-> <<>>, cmd |-> 0, payload |-> <<>>,
               flip |-> -1, stream |-> <<>>]

InitArb ==
    /\ g_current_mode = 0
    /\ g_pulse_active = FALSE
    /\ pulse_timers = <<>>
    /\ uart_tx = <<>>
    /\ ArbInit
    /\ DecoderInit
    /\ scenario = NoScenario
    /\ rx_input = <<>>

\* the mode plugs observed and the modes the peer sets in a behaviour
TappedEndpoints == {0, 1, 2}

PeerModes == {0, 3}

NextArb ==
    \/ SyncStep
    \/ \E endpoint \in TappedEndpoints, val \in BOOLEAN :
          CbEnter(endpoint, val)
    \/ CbStoreTime
    \/ \E m \in PeerModes : PeerSetMode(m)
    \/ PulseTimerFire
    \/ AdvanceClock

SpecArb == InitArb /\ [][NextArb]_vars

\* ------------------------------------------------------------------------
\* The trigger switch observed going on and off, and the pulse timers
\* ------------------------------------------------------------------------
PulseInstantsMs == {0, 100, 200, 500, 700}

LaterPulseInstants == {t \in PulseInstantsMs : t * US_PER_MS > clock}

\* time passes to the next instant, unless a timer is due
AdvancePulseClock ==
    /\ ~timer_due
    /\ LaterPulseInstants # {}
    /\ clock' = US_PER_MS * (CHOOSE t \in LaterPulseInstants :
                                \A u \in LaterPulseInstants : t <= u)
    /\ UNCHANGED <<g_current_mode, g_pulse_active, pulse_timers, uart_tx,
                   codec_vars, g_target_mode, g_last_tap_time,
                   g_last_execution_time, g_syncing_modes, sync_pc, now,
                   time_since_tap_ms, time_since_exec_ms, i, cleanup_done,
                   cb_pc, seq, obs>>

\* the callback for an observation of the switch endpoint
SwitchObserved(val) ==
    /\ obs.n_cb < MaxObservations
    /\ Callback(switch_endpoint, val)

InitPulse == InitArb

NextPulse ==
    \/ \E val \in BOOLEAN : SwitchObserved(val)
    \/ PulseTimerFire
    \/ AdvancePulseClock

SpecPulse == InitPulse /\ [][NextPulse]_vars

\* ------------------------------------------------------------------------
\* The arbiter with a state-reporting subsystem whose report calls may
\* fail, and taps on one mode endpoint
\* ------------------------------------------------------------------------
FaultScenario == [NoScenario EXCEPT !.kind = "faults"]

InitFaults ==
    /\ g_current_mode = 0
    /\ g_pulse_active = FALSE
    /\ pulse_timers = <<>>
    /\ uart_tx = <<>>
    /\ ArbInit
    /\ DecoderInit
    /\ scenario = FaultScenario
    /\ rx_input = <<>>

FaultTaps == {1}

NextFaults ==
    \/ SyncStep
    \/ \E endpoint \in FaultTaps : CbEnter(endpoint, TRUE)
    \/ CbStoreTime
    \/ PulseTimerFire
    \/ AdvanceClock

SpecFaults == InitFaults /\ [][NextFaults]_vars

\* ========================================================================
\* Properties of the codec and the command handlers (SpecCodec)
\* ========================================================================
\* the response codes a handler sent, in order
RECURSIVE TxOf(_)
TxOf(ev) ==
    IF ev = <<>> THEN <<>>
    ELSE (IF Head(ev).t = "tx" THEN <<Head(ev).v>> ELSE <<>>) \o TxOf(Tail(ev))

\* the frames the receive loop found CRC-valid, in order
ValidFrames == SelectSeq(rx_log, LAMBDA e : e.kind \in {"command", "response"})

\* every frame on the wire so far is a response logged for some frame
RECURSIVE AllTx(_)
AllTx(log) ==
    IF log = <<>> THEN <<>> ELSE tx_frames(Head(log).ev) \o AllTx(Tail(log))

LogConsistent ==
    /\ uart_tx = AllTx(rx_log)
    /\ g_current_mode = IF rx_log = <<>> THEN 0
                        ELSE rx_log[Len(rx_log)].mode_after

InputConsumed == rx_input = <<>>

DecodedExactly(c, payload) ==
    /\ Len(ValidFrames) = 1
    /\ ValidFrames[1].cmd = c
    /\ ValidFrames[1].payload = payload
    /\ state = 0
    /\ buf_idx = 0

\* C5 (as claimed): any garbage or truncated prefix followed by one valid
\* frame F gives exactly one successful decode, of F, and leaves the decoder
\* in WaitStart with an empty buffer.
C5_Resynchronization ==
    (scenario.kind \in {"clean", "prefix"} /\ InputConsumed)
        => DecodedExactly(scenario.cmd, scenario.payload)

\* C6: the decoder, started in WaitStart and fed uart_send_frame(cmd,
\* payload), reports nothing until the last byte and then exactly one
\* CRC-valid frame with that cmd and payload, and is back in WaitStart.
C6_RoundTrip ==
    scenario.kind = "clean"
        => IF InputConsumed
           THEN /\ DecodedExactly(scenario.cmd, scenario.payload)
                /\ Len(rx_log) = 1
           ELSE rx_log = <<>>

C6_Witness ==
    /\ scenario.kind = "clean"
    /\ Len(scenario.payload) >= MaxPayloadLen
    /\ InputConsumed
    /\ Len(ValidFrames) = 1

NothingDispatched ==
    /\ ValidFrames = <<>>
    /\ uart_tx = <<>>
    /\ g_current_mode = 0

\* C7 (as claimed): whichever single bit of a valid encoded frame is
\* flipped, the decoder discards the frame: no handler runs, nothing
\* changes.
C7_AnyFlipDiscarded ==
    scenario.kind = "flip" => NothingDispatched

\* C7 (amended): a single-bit flip in the command, payload or CRC byte of a
\* valid encoded frame makes the decoder discard the frame on a CRC
\* mismatch: no handler runs, no response is sent, current_mode is
\* unchanged and the decoder is back in WaitStart.
C7_BodyFlipDiscarded ==
    (scenario.kind = "flip" /\ scenario.flip >= 16)
        => /\ NothingDispatched
           /\ InputConsumed =>
                 /\ Len(rx_log) = 1
                 /\ rx_log[1].kind = "crc_error"
                 /\ state = 0
                 /\ buf_idx = 0

C7_Witness ==
    /\ scenario.kind = "flip" /\ scenario.flip >= 16
    /\ Len(scenario.payload) >= 1
    /\ InputConsumed
    /\ Len(rx_log) = 1
    /\ rx_log[1].kind = "crc_error"

IsCommand(e, c) == e.kind = "command" /\ e.cmd = c

\* C8 (as claimed): a CRC-valid SET_MODE frame whose payload is not exactly
\* one byte long is answered ERR and changes no state.
C8_SetModeLength ==
    \A k \in DOMAIN rx_log :
        (IsCommand(rx_log[k], CMD_SET_MODE) /\ Len(rx_log[k].payload) # 1)
            => /\ TxOf(rx_log[k].ev) = <<RSP_ERR>>
               /\ rx_log[k].mode_after = rx_log[k].mode_before

\* C9: a SET_MODE frame with a one-byte payload outside {0,1,2,3} is
\* answered with exactly one ERR and leaves current_mode unchanged; with a
\* byte in {0,1,2,3} it sets current_mode to it and is answered ACK.
C9_SetModeValue ==
    /\ LogConsistent
    /\ \A k \in DOMAIN rx_log :
          (IsCommand(rx_log[k], CMD_SET_MODE) /\ Len(rx_log[k].payload) = 1)
              => IF rx_log[k].payload[1] \in Modes
                 THEN /\ TxOf(rx_log[k].ev) = <<RSP_ACK>>
                      /\ rx_log[k].mode_after = rx_log[k].payload[1]
                 ELSE /\ TxOf(rx_log[k].ev) = <<RSP_ERR>>
                      /\ rx_log[k].mode_after = rx_log[k].mode_before

C9_Witness ==
    \E k \in DOMAIN rx_log :
        /\ IsCommand(rx_log[k], CMD_SET_MODE)
        /\ rx_log[k].payload = <<5>>
        /\ rx_log[k].mode_before = 2
        /\ g_current_mode = 2

\* C10 (as claimed): a TRIGGER received while no trigger action is in
\* progress is answered ACK and sets the in-progress flag, so that a TRIGGER
\* that follows it is answered BUSY.
C10_TriggerStartsAction ==
    \A k \in DOMAIN rx_log :
        (IsCommand(rx_log[k], CMD_TRIGGER) /\ ~rx_log[k].pulse_before)
            => /\ TxOf(rx_log[k].ev) = <<RSP_ACK>>
               /\ rx_log[k].pulse_after

\* the shared record: current mode, pending target, timestamps, syncing flag
DeviceState == <<g_current_mode, g_target_mode, g_last_tap_time,
                 g_last_execution_time, g_syncing_modes>>

\* the receive loop has just dispatched a frame with command c
Dispatched(c) ==
    /\ Len(rx_log') = Len(rx_log) + 1
    /\ IsCommand(rx_log'[Len(rx_log')], c)

\* C11 (busy path): dispatching a TRIGGER while g_pulse_active is set writes
\* exactly one frame, BUSY, runs no LED pattern, and changes neither
\* g_pulse_active, nor the pending pulse timer, nor any DeviceState field.
C11_BusyPath ==
    [][(Dispatched(CMD_TRIGGER) /\ g_pulse_active) =>
          /\ rx_log'[Len(rx_log')].ev = <<Tx(RSP_BUSY)>>
          /\ uart_tx' = Append(uart_tx, uart_send_response(RSP_BUSY))
          /\ UNCHANGED <<g_pulse_active, pulse_timers, DeviceState>>]_vars

C11_Witness ==
    /\ g_pulse_active
    /\ pulse_timers # <<>>
    /\ \E k \in DOMAIN rx_log :
          /\ IsCommand(rx_log[k], CMD_TRIGGER)
          /\ rx_log[k].pulse_before
          /\ TxOf(rx_log[k].ev) = <<RSP_BUSY>>

\* a response is among the events, and every LED pattern comes after one
ResponseFirst(ev) ==
    /\ \E j \in DOMAIN ev : ev[j].t = "tx"
    /\ \A k \in DOMAIN ev :
          ev[k].t = "led" => \E j \in 1..(k - 1) : ev[j].t = "tx"

\* C14 (response before side effect): whichever handler a dispatched
\* command reaches (HELLO, PING, TRIGGER, SET_MODE, unrecognized), it writes
\* its response frame before it runs any LED pattern.
C14_ResponseBeforeSideEffect ==
    \A k \in DOMAIN rx_log :
        rx_log[k].kind = "command" => ResponseFirst(rx_log[k].ev)

C14_Witness ==
    /\ Len(rx_log) = 2
    /\ rx_log[1].ev = <<SetMode(2), Tx(RSP_ACK), Led(3)>>
    /\ IsCommand(rx_log[2], CMD_PING)
    /\ rx_log[2].ev = <<Tx(RSP_ACK), Led(2)>>

RecognizedCommands == {CMD_HELLO, CMD_SET_MODE, CMD_TRIGGER, CMD_PING}

\* the receive loop has just dispatched a frame with an unrecognized command
DispatchedUnrecognized ==
    /\ Len(rx_log') = Len(rx_log) + 1
    /\ rx_log'[Len(rx_log')].kind = "command"
    /\ rx_log'[Len(rx_log')].cmd \notin RecognizedCommands

\* C15 (unrecognized command): dispatching a CRC-valid frame whose command
\* is below 0x80 and is none of HELLO, SET_MODE, TRIGGER, PING writes
\* exactly one frame, ERR, and changes neither a DeviceState field nor
\* g_pulse_active nor the pulse timer.
C15_UnrecognizedCommand ==
    [][DispatchedUnrecognized =>
          /\ TxOf(rx_log'[Len(rx_log')].ev) = <<RSP_ERR>>
          /\ uart_tx' = Append(uart_tx, uart_send_response(RSP_ERR))
          /\ UNCHANGED <<DeviceState, g_pulse_active, pulse_timers>>]_vars

C15_Witness ==
    /\ Len(rx_log) = 2
    /\ IsCommand(rx_log[2], CMD_STATUS_UNPAIRED)
    /\ rx_log[2].pulse_before
    /\ TxOf(rx_log[2].ev) = <<RSP_ERR>>
    /\ g_current_mode = 2

\* the payload limit of the encoder as specified: 58 bytes
SpecifiedPayloadLimit == MAX_FRAME_LEN - 2

\* C16 (encoder bound, as claimed): called with more than 58 payload bytes
\* the encoder fails, writes nothing and stores nothing past frame[63];
\* with 0 to 58 payload bytes it writes exactly payload length + 4 bytes:
\* 0xA5, 1 + payload length, command, payload, CRC.
C16_EncoderBound ==
    enc.called =>
        LET n == Len(scenario.payload) IN
        IF n > SpecifiedPayloadLimit
        THEN /\ uart_tx = <<>>
             /\ ~enc.ret
             /\ enc.stored <= FRAME_BUF_SIZE
        ELSE /\ Len(uart_tx) = 1
             /\ Len(uart_tx[1]) = n + 4
             /\ SubSeq(uart_tx[1], 1, n + 3) =
                    <<FRAME_START, 1 + n, scenario.cmd>> \o scenario.payload
             /\ uart_tx[1][n + 4] = crc8(SubSeq(uart_tx[1], 2, n + 3))

\* the loop body is about to run on the next byte of the stream
NextByte == Head(rx_input)
ByteRead == rx_input # <<>> /\ rx_input' = Tail(rx_input)

\* the byte just read was an invalid length byte / a CRC byte that differs
\* from the CRC of the length, command and payload bytes accumulated
BadLengthRead == ByteRead /\ state = 1 /\ (NextByte = 0 \/ NextByte > MAX_FRAME_LEN)
BadCrcRead == ByteRead /\ state = 3 /\ NextByte # crc8(Tail(frame_buf))

\* the log entry the step has just added
Logged == rx_log'[Len(rx_log')]

\* C25 (transport-level corruption is silent): the step that reads an
\* invalid length byte or a mismatching CRC byte writes nothing to the
\* UART, runs no handler (the frame is logged as discarded, with no
\* response), changes no field of the shared record nor g_pulse_active, and
\* leaves the decoder in state 0 with buf_idx 0.
C25_SilentCorruption ==
    [][(BadLengthRead \/ BadCrcRead) =>
          /\ UNCHANGED <<uart_tx, DeviceState, cleanup_done, g_pulse_active>>
          /\ Len(rx_log') = Len(rx_log) + 1
          /\ Logged.kind = (IF BadLengthRead THEN "bad_len" ELSE "crc_error")
          /\ TxOf(Logged.ev) = <<>>
          /\ state' = 0 /\ buf_idx' = 0 /\ frame_buf' = <<>>]_vars

\* a frame with one bit flipped in its length byte, making it invalid, or
\* in a later byte, failing the CRC: discarded, nothing sent
C25_Witness ==
    /\ scenario.kind = "flip"
    /\ rx_log # <<>>
    /\ rx_log[1].kind \in {"bad_len", "crc_error"}
    /\ uart_tx = <<>>
    /\ state = 0 /\ buf_idx = 0

\* the byte just read completed a CRC-valid frame
ValidFrameRead == ByteRead /\ state = 3 /\ NextByte = crc8(Tail(frame_buf))

\* C26 (responses are never dispatched): the step that completes a
\* CRC-valid frame whose command byte is 0x80 or above writes nothing to
\* the UART, runs no handler (no LED pattern, no response: the frame is
\* logged as a response) and changes no field of the shared record nor
\* g_pulse_active; a CRC-valid frame with a command byte below 0x80 is
\* dispatched.
C26_ResponsesNotDispatched ==
    [][ValidFrameRead =>
          /\ Len(rx_log') = Len(rx_log) + 1
          /\ Logged.cmd = frame_buf[3]
          /\ IF frame_buf[3] >= RESPONSE_BASE
             THEN /\ Logged.kind = "response"
                  /\ Logged.ev = <<>>
                  /\ UNCHANGED <<uart_tx, DeviceState, cleanup_done,
                                 g_pulse_active>>
             ELSE /\ Logged.kind = "command"
                  /\ Logged.ev # <<>>]_vars

\* a frame with command byte 0xFF, not one of the four response codes,
\* was decoded and nothing was sent
C26_Witness ==
    /\ scenario.kind = "clean"
    /\ scenario.cmd = 255
    /\ rx_input = <<>>
    /\ Len(rx_log) = 1
    /\ rx_log[1].kind = "response"
    /\ uart_tx = <<>>

\* ========================================================================
\* Properties of the decoder's frame buffer, checked under SpecBuffer
\* ========================================================================
\* C27 (decoder buffer bound): buf_idx, the index of the next store into
\* frame_buf[64], is below 64 in every state, and still below 64 after the
\* store of the CRC byte and its increment; while body or CRC bytes are
\* awaited the length byte was in 1..60 and buf_idx counts the marker, the
\* length byte and the body bytes read so far; buf_idx is 0 in state 0;
\* bytes_to_read is at least 1 when it is decremented and never negative.
C27_DecoderBufferBound ==
    /\ buf_idx < FRAME_BUF_SIZE
    /\ Len(frame_buf) = buf_idx
    /\ state = 0 => buf_idx = 0
    /\ state \in {2, 3} =>
          /\ frame_len \in 1..MAX_FRAME_LEN
          /\ buf_idx = 2 + frame_len - bytes_to_read
    /\ state = 2 => bytes_to_read >= 1
    /\ state = 3 => bytes_to_read = 0 /\ buf_idx + 1 < FRAME_BUF_SIZE
    /\ bytes_to_read >= 0

\* a frame with length byte 60 has been accumulated up to its CRC byte
C27_Witness ==
    /\ scenario.kind = "buffer"
    /\ state = 3
    /\ frame_len = MAX_FRAME_LEN
    /\ buf_idx = MAX_FRAME_LEN + 2
    /\ NextByte = crc8(Tail(frame_buf))

\* ========================================================================
\* Properties of the receive loop with split reads, checked under SpecReads
\* ========================================================================
\* The frames of a byte stream read as a whole: bytes before a start marker
\* are skipped; a marker followed by a length of 0 or above 60 is an
\* invalid frame of two bytes; otherwise the frame is the length byte's
\* worth of body and one CRC byte; a frame cut short by the end of the
\* stream is not a frame yet.
RECURSIVE Framing(_)
Framing(s) ==
    IF s = <<>> THEN <<>>
    ELSE IF s[1] # FRAME_START THEN Framing(Tail(s))
    ELSE IF Len(s) < 2 THEN <<>>
    ELSE IF length_invalid(s[2])
    THEN <<[kind |-> "bad_len", cmd |-> 0, payload |-> <<>>]>>
             \o Framing(SubSeq(s, 3, Len(s)))
    ELSE IF Len(s) < s[2] + 3 THEN <<>>
    ELSE LET n == s[2]
             valid == crc8(SubSeq(s, 2, 2 + n)) = s[3 + n]
         IN  <<[kind |-> IF ~valid THEN "crc_error"
                         ELSE IF s[3] >= RESPONSE_BASE THEN "response"
                         ELSE "command",
                cmd |-> s[3],
                payload |-> SubSeq(s, 4, 2 + n)]>>
                 \o Framing(SubSeq(s, n + 4, Len(s)))

\* what the receive loop made of the frames so far: dispatched, observed
\* as a response, or discarded, each with its command byte and payload
Outline ==
    [k \in 1..Len(rx_log) |->
        [kind |-> rx_log[k].kind, cmd |-> rx_log[k].cmd,
         payload |-> rx_log[k].payload]]

\* the bytes of the stream the for loop has run on
Consumed ==
    SubSeq(scenario.stream, 1,
           Len(scenario.stream) - Len(rx_input) - Len(rx_data.bytes))

\* uart_read_bytes has just returned
ReadReturned ==
    /\ rx_data.bytes = <<>>
    /\ rx_data'.bytes # <<>> \/ rx_data'.timeouts # rx_data.timeouts

\* C24 (fragmentation independence): however the stream is split into
\* reads, 0-byte reads included, what the receive loop has dispatched,
\* observed and discarded is always the framing of the bytes consumed so
\* far (so it is the same as with the whole stream in one read), and a read
\* returning changes none of the decoder's locals.
C24_FragmentationIndependence ==
    [][/\ Outline' = Framing(Consumed')
       /\ ReadReturned =>
             UNCHANGED <<state, buf_idx, frame_buf, frame_len, bytes_to_read,
                         cmd, rx_log, uart_tx, g_current_mode>>]_vars

\* two frames decoded from a stream that was split inside a frame, with a
\* read that timed out
C24_Witness ==
    /\ scenario.kind = "pair"
    /\ rx_input = <<>> /\ rx_data.bytes = <<>>
    /\ rx_data.split
    /\ rx_data.timeouts = 1
    /\ Len(rx_log) = 2
    /\ rx_log[2].kind = "command"
    /\ rx_log[2].payload = scenario.payload

\* ========================================================================
\* Properties of the arbiter, checked under SpecArb
\* ========================================================================
\* obs.exec is the last execution: when it set g_current_mode, the mode it
\* went to, and the last accepted tap before it (its time, its mode, and
\* whether every tap of its burst came less than 200 ms after the previous
\* one).
Executed == obs.exec.at >= 0

\* C1 (debounce collapse): an execution that ends a burst of accepted taps,
\* each less than 200 ms after the previous one, goes to the mode of the
\* last tap of the burst and happens no earlier than 200 ms after that tap.
C1_DebounceCollapse ==
    Executed /\ obs.exec.burst_ok =>
        /\ obs.exec.mode = obs.exec.tap_mode
        /\ obs.exec.at - obs.exec.tap_at >= DEBOUNCE_MS * US_PER_MS

\* C2 (single cleanup): since the last accepted tap (or since start-up when
\* there was none) the arbiter has begun at most one re-assertion sequence.
C2_SingleCleanup == obs.cleanups <= 1

OnReports == {k \in DOMAIN seq.reports : seq.reports[k].val}

ReportedOffBefore(endpoint, k) ==
    \E j \in 1..(k - 1) :
        seq.reports[j].ep = endpoint /\ ~seq.reports[j].val

\* C3 (mutual exclusivity): a completed execution or re-assertion sequence
\* has reported exactly one mode endpoint on, and has reported each of the
\* other three endpoints off before that on report.
C3_MutualExclusivity ==
    seq.complete =>
        /\ Cardinality(OnReports) = 1
        /\ \A k \in OnReports :
             \A m \in Modes \ {seq.reports[k].ep} : ReportedOffBefore(m, k)

\* C4 (serialized check-and-execute): an accepted tap is never lost: as
\* long as no execution has gone to the mode of the last accepted tap, that
\* mode is pending in g_target_mode.
C4_SerializedCheckAndExecute ==
    obs.unexecuted # NO_TARGET => g_target_mode = obs.unexecuted

\* no pending target, not syncing, re-assertion for the current mode done
Settled == g_target_mode = NO_TARGET /\ ~g_syncing_modes /\ cleanup_done

\* C12 (settled-state invariant): whenever the arbiter is settled, the last
\* report of the endpoint of g_current_mode was on and none of the other
\* three mode endpoints was last reported on (an endpoint never reported
\* since start-up counts as off).
C12_SettledState ==
    Settled =>
        \A m \in Modes : (seq.last[m] = "on") <=> (m = g_current_mode)

\* C13 (never turn off the target): in an execution or re-assertion
\* sequence, the endpoint the sequence reports on has not been reported off
\* earlier in the same sequence.
C13_NeverTurnOffTarget ==
    \A k \in OnReports : ~ReportedOffBefore(seq.reports[k].ep, k)

\* the last execution came at least 200 ms after the tap it executed
ProperExecution ==
    /\ Executed
    /\ obs.exec.at - obs.exec.tap_at >= DEBOUNCE_MS * US_PER_MS

\* the last report sequence was an execution, and it has completed
ExecutionCompleted == seq.kind = "exec" /\ seq.complete

\* C17 (re-arming after execution): once an execution that came at least
\* 200 ms after its tap has completed, and until the next report sequence
\* begins, cleanup_done is false, so that the re-assertion can follow.
C17_RearmedAfterExecution ==
    (ExecutionCompleted /\ ProperExecution) => ~cleanup_done

\* a re-assertion sequence is running; it began at the present clock value
CleanupRunning == seq.kind = "cleanup" /\ ~seq.complete

\* the last execution went to a tap that had selected the mode current at
\* the time, which no tick before a change of g_current_mode could execute
DeferredExecution == ProperExecution /\ obs.exec.tap_on_current

\* C18 (re-assertion deadline): a re-assertion does not begin less than
\* 5000 ms after the most recent execution, in particular not in the tick
\* of that execution (stated for the executions that no earlier tick could
\* have performed).
C18_ReassertionDeadline ==
    (CleanupRunning /\ DeferredExecution) =>
        clock - obs.exec.at >= CLEANUP_MS * US_PER_MS

\* C19 (peer SET_MODE is authoritative): after a peer SET_MODE m applied
\* more than 200 ms plus one tick period after the last accepted tap, that
\* tap having selected the mode that was current, and with no tap since,
\* g_current_mode is m.
C19_PeerAuthoritative ==
    obs.peer_mode # NO_TARGET => g_current_mode = obs.peer_mode

\* the callback has just accepted an on observation of a mode endpoint
TapAccepted == cb_pc = "idle" /\ cb_pc' = "store_time"

\* C20 (callback reactions are endpoint-specific): the callback ingesting
\* an on observation of a mode endpoint as a tap neither starts nor stops
\* the pulse: g_pulse_active and the pulse timers are unchanged.
C20_EndpointSpecific ==
    [][TapAccepted => UNCHANGED <<g_pulse_active, pulse_timers>>]_vars

\* the callback has just been entered for an OnOff observation
CallbackEntered == obs'.n_cb = obs.n_cb + 1

\* the observation was on: start_pulse leaves g_pulse_active set; it was
\* off: stop_pulse leaves it clear
OnObserved == CallbackEntered /\ g_pulse_active'
OffObserved == CallbackEntered /\ ~g_pulse_active'

\* the callback has just stored the time of the tap (line 641)
TapTimeStored == cb_pc = "store_time" /\ cb_pc' = "idle"

\* C21 (tap ingestion rule): an on observation of a mode endpoint while
\* g_syncing_modes is set changes no field of the shared record; while it
\* is clear the callback stores the endpoint's mode in g_target_mode and
\* then the present time in g_last_tap_time, and changes none of
\* g_current_mode, g_last_execution_time, g_syncing_modes, cleanup_done; an
\* off observation changes no field of the shared record.
C21_TapIngestion ==
    [][/\ (OnObserved /\ g_syncing_modes) =>
            /\ UNCHANGED <<DeviceState, cleanup_done>>
            /\ cb_pc' = "idle"
       /\ (OnObserved /\ ~g_syncing_modes) =>
            /\ g_target_mode' = obs'.tap_mode
            /\ obs'.tap_at = clock
            /\ cb_pc' = "store_time"
            /\ UNCHANGED <<g_current_mode, g_last_tap_time,
                           g_last_execution_time, g_syncing_modes,
                           cleanup_done>>
       /\ TapTimeStored =>
            /\ g_last_tap_time' = clock
            /\ UNCHANGED <<g_current_mode, g_target_mode,
                           g_last_execution_time, g_syncing_modes,
                           cleanup_done>>
       /\ OffObserved => UNCHANGED <<DeviceState, cleanup_done>>]_vars

\* a sequence is running and the only observations so far were made while
\* it ran: the pulse is on, but no tap has been accepted
C21_Witness ==
    /\ g_syncing_modes
    /\ obs.n_cb > 0
    /\ g_pulse_active
    /\ obs.tap_at = -1
    /\ g_target_mode = NO_TARGET

\* mode_sync_task has just taken a step
TaskStepped == sync_pc' # sync_pc

\* the report sequence of an execution is running: g_syncing_modes was set
\* by it and it has not reached line 319
ExecutionSequence == seq.kind = "exec" /\ ~seq.complete

ReassertionStep == TaskStepped /\ (CleanupRunning \/ CleanupRunning')

\* the step that ends a re-assertion
ReassertionEnds == CleanupRunning /\ seq'.complete

\* the sequence that has just ended reported the three mode endpoints other
\* than m off and then endpoint m on, and nothing else
ThreeOffThenOn(m) ==
    LET r == seq'.reports IN
    /\ Len(r) = NUM_MODES
    /\ \A k \in 1..(NUM_MODES - 1) : ~r[k].val
    /\ {r[k].ep : k \in 1..(NUM_MODES - 1)} = Modes \ {m}
    /\ r[NUM_MODES].ep = m /\ r[NUM_MODES].val

\* what a re-assertion leaves alone, and how it ends
ReassertionFrame ==
    /\ ReassertionStep =>
          UNCHANGED <<g_current_mode, g_target_mode, g_last_tap_time,
                      g_last_execution_time, uart_tx>>
    /\ ReassertionEnds => ~g_syncing_modes' /\ cleanup_done'

\* C23 (pure re-assertion): no step of a re-assertion changes
\* g_current_mode, g_target_mode, g_last_tap_time or g_last_execution_time
\* or writes a frame to the UART; when it ends, g_syncing_modes is clear,
\* cleanup_done is set, and it has reported the three endpoints other than
\* one mode's off and then that mode's endpoint on.
C23_PureReassertion ==
    [][/\ ReassertionFrame
       /\ ReassertionEnds => \E m \in Modes : ThreeOffThenOn(m)]_vars

\* the part of C23 about the record and the UART, without the reports
C23_FrameOnly == [][ReassertionFrame]_vars

\* ========================================================================
\* Properties of the arbiter when reports fail, checked under SpecFaults
\* ========================================================================
\* a report of the sequence returned an error
ReportFailed(sq) == \E k \in DOMAIN sq.reports : sq.reports[k].err # "ESP_OK"

\* the step that ends an execution or re-assertion sequence
SequenceEnds == ~seq.complete /\ seq'.complete

\* C28 (downstream failure does not abort sequencing): a sequence in which
\* a report returned an error has, when it ends, issued all three off
\* reports and then the on report for g_current_mode, which it has not
\* changed since it set g_syncing_modes; it ends with g_syncing_modes clear
\* and with g_last_execution_time set to the tick's time (execution) or
\* cleanup_done set (re-assertion).
C28_FailureDoesNotAbort ==
    [][(SequenceEnds /\ ReportFailed(seq')) =>
          /\ ThreeOffThenOn(g_current_mode')
          /\ ~g_syncing_modes'
          /\ seq.kind = "exec" => g_last_execution_time' = now
          /\ seq.kind = "cleanup" => cleanup_done']_vars

\* an execution whose first off report failed has completed
C28_Witness ==
    /\ seq.complete
    /\ seq.kind = "exec"
    /\ Len(seq.reports) = NUM_MODES
    /\ seq.reports[1].err = "ESP_FAIL"
    /\ seq.reports[NUM_MODES].val
    /\ ~g_syncing_modes

\* ========================================================================
\* Properties of the pulse, checked under SpecPulse
\* ========================================================================
\* a pulse timer has just fired
TimerFired == Len(pulse_timers') < Len(pulse_timers)

\* the deadline of the timer started with the pulse that is running: the
\* one started last
OwnDeadline == pulse_timers[Len(pulse_timers)]

\* C29 (trigger action timing integrity): at most one pulse timer is
\* pending at any time, and a timer that fires while a pulse is running is
\* that pulse's own: the pulse has lasted its full PULSE_DURATION_MS.
C29_TimingIntegrity ==
    [][/\ Len(pulse_timers') <= 1
       /\ (TimerFired /\ g_pulse_active) => clock >= OwnDeadline]_vars

\* the last part of C29 alone: no timer ends a pulse before the pulse's own
\* deadline
C29_NoPrematureEnd ==
    [][(TimerFired /\ g_pulse_active) => clock >= OwnDeadline]_vars

====
